---- MODULE Spec2Model ----
(***************************************************************************)
(* State-machine model of the cascaded 8259A pair of src/hw/i8259.c.       *)
(*                                                                         *)
(* Registers are the uint8_t fields of PicState, kept as integers 0..255.  *)
(* The two output wires are the qemu_irq handles given to pic_init():      *)
(* wire[0] is parent_irq (the CPU INT line), wire[1] is irqs[2], whose     *)
(* handler is i8259_set_irq(s, 2, level), i.e. the master's input 2.       *)
(***************************************************************************)
EXTENDS Integers, Sequences, FiniteSets, TLC

VARIABLES
    pics,      \* PicState2.pics : [0..1 -> PicState], 0 master, 1 slave
    wire,      \* level last driven on each unit's int_out
    halted,    \* hw_error() was called: the emulator has aborted
    op,        \* the entry point called last, its arguments and return value
    steps,     \* number of entry-point calls made so far
    level,     \* per device line: level most recently supplied by set_line
    nset,      \* per device line: edge-mode IRR sets since the last set_line(i,0)
    nset_r     \* as nset, and also cleared by a reset of the line's unit

vars == <<pics, wire, halted, op, steps, level, nset, nset_r>>

(***************************************************************************)
(* Bounds and input sets.                                                  *)
(***************************************************************************)
MaxSteps == 3

\* device lines driven through the 16 handles of i8259_init (line 2 is the
\* slave's output, never driven by a device)
DevLines == {0, 3, 8, 11}

\* all sixteen handles except the cascade input
AllLines == (0..15) \ {2}

\* bytes written to offset 0: ICW1 (0x11 cascade+ICW4, 0x12 single, 0x19
\* level-sensitive), OCW3 (0x0C poll, 0x0B read ISR, 0x68 set special mask),
\* OCW2 (0x20 EOI, 0xA0 rotate EOI, 0x63 specific EOI 3, 0xC2 set priority,
\* 0xE3 rotate specific EOI 3, 0x80 rotate in AEOI, 0x40 no-op)
Cmd0Vals == {17, 18, 25, 12, 11, 104, 32, 160, 99, 194, 227, 128, 64}

\* bytes written to offset 1: OCW1 masks, ICW2 bases, ICW3, ICW4 modes
Cmd1Vals == {0, 255, 9, 43, 19}

\* bytes written to the ELCR port
ElcrVals == {0, 255}

\* number of port writes in an initialisation run
MaxInitSteps == 4

\* ICW1 bytes: cascade or single (bit 1), with or without ICW4 (bit 0)
Icw1Vals == {16, 17, 18, 19}

\* bytes written to offset 1 during and after an initialisation: 0x20
\* (vector base), 0x04 (ICW3), 0x01 (ICW4 plain), 0x12 (ICW4 with auto-EOI
\* and special fully nested mode), 0x2B (unaligned vector base)
InitDataVals == {32, 4, 1, 18, 43}

\* register valuations handed to the pending selection: irr with at most
\* MaxRequests bits set, isr with at most MaxInService bits set
MaxRequests == 2

MaxInService == 1

\* masks: none, the cascade line, lines 0 and 3, the upper half, all
PendImrVals == {0, 4, 9, 240, 255}

\* number of device, acknowledge and EOI steps in a delivery run
MaxDeliverySteps == 4

\* lines driven in a delivery run: one on the master, two on the slave
DeliveryLines == {3, 8, 11}

\* ICW4 bytes: plain, auto-EOI, special fully nested, both
Icw4Vals == {1, 3, 17, 19}

(***************************************************************************)
(* uint8_t bit operations.                                                 *)
(***************************************************************************)
Shl1(i) == 2 ^ i

Bit(x, i) == (x \div Shl1(i)) % 2

AndBits(a, b) ==
      Bit(a, 0) * Bit(b, 0)
    + 2 * Bit(a, 1) * Bit(b, 1)
    + 4 * Bit(a, 2) * Bit(b, 2)
    + 8 * Bit(a, 3) * Bit(b, 3)
    + 16 * Bit(a, 4) * Bit(b, 4)
    + 32 * Bit(a, 5) * Bit(b, 5)
    + 64 * Bit(a, 6) * Bit(b, 6)
    + 128 * Bit(a, 7) * Bit(b, 7)

\* a & b on uint8_t operands, tabulated once
AndTab == [a \in 0..255 |-> [b \in 0..255 |-> AndBits(a, b)]]

And(a, b) == AndTab[a][b]

Or(a, b) == a + b - And(a, b)

\* ~x restricted to the eight bits of a register
Not8(x) == 255 - x

(***************************************************************************)
(* PicState and the state after i8259_init (g_malloc0, then the masks).    *)
(***************************************************************************)
PicZero ==
    [ last_irr |-> 0, irr |-> 0, imr |-> 0, isr |-> 0, priority_add |-> 0,
      irq_base |-> 0, read_reg_select |-> 0, poll |-> 0, special_mask |-> 0,
      init_state |-> 0, auto_eoi |-> 0, rotate_on_auto_eoi |-> 0,
      special_fully_nested_mode |-> 0, init4 |-> 0, single_mode |-> 0,
      elcr |-> 0, elcr_mask |-> 0 ]

i8259_init ==
    [ pics |-> [u \in 0..1 |->
                  [PicZero EXCEPT !.elcr_mask = IF u = 0 THEN 248 ELSE 222]],
      wire |-> [u \in 0..1 |-> 0],
      halted |-> FALSE ]

(***************************************************************************)
(* Priority resolution.                                                    *)
(***************************************************************************)
RECURSIVE get_priority_loop(_, _, _)
get_priority_loop(s, mask, priority) ==
    IF Bit(mask, (priority + s.priority_add) % 8) = 0
    THEN get_priority_loop(s, mask, priority + 1)
    ELSE priority

get_priority(s, mask) ==
    IF mask = 0 THEN 8 ELSE get_priority_loop(s, mask, 0)

\* mutant: special fully nested mode hides isr bit 2 on either unit
pic_get_irq_sfnm_any_unit(s, u) ==
    LET mask     == And(s.irr, Not8(s.imr))
        priority == get_priority(s, mask)
        m1       == s.isr
        m2       == IF s.special_mask # 0 THEN And(m1, Not8(s.imr)) ELSE m1
        m3       == IF s.special_fully_nested_mode # 0
                    THEN And(m2, Not8(Shl1(2))) ELSE m2
        cur_priority == get_priority(s, m3)
    IN  IF priority = 8 THEN -1
        ELSE IF priority < cur_priority
             THEN (priority + s.priority_add) % 8
             ELSE -1

\* s is pics[u]; u = 0 models s == &s->pics_state->pics[0]
pic_get_irq(s, u) ==
    LET mask     == And(s.irr, Not8(s.imr))
        priority == get_priority(s, mask)
        m1       == s.isr
        m2       == IF s.special_mask # 0 THEN And(m1, Not8(s.imr)) ELSE m1
        m3       == IF s.special_fully_nested_mode # 0 /\ u = 0
                    THEN And(m2, Not8(Shl1(2))) ELSE m2
        cur_priority == get_priority(s, m3)
    IN  IF priority = 8 THEN -1
        ELSE IF priority < cur_priority
             THEN (priority + s.priority_add) % 8
             ELSE -1

(***************************************************************************)
(* Output update and line input.  Raising or lowering the slave's int_out  *)
(* calls i8259_set_irq(s, 2, level) on the master.                         *)
(***************************************************************************)
RECURSIVE pic_update_irq(_, _)

\* mutant: an edge line latches a request on every high level
pic_set_irq1_no_edge_detect(m, u, irq, lv) ==
    LET s    == m.pics[u]
        mask == Shl1(irq)
        s1   == IF lv # 0
                THEN [s EXCEPT !.irr = Or(s.irr, mask),
                               !.last_irr = Or(s.last_irr, mask)]
                ELSE IF And(s.elcr, mask) # 0
                     THEN [s EXCEPT !.irr = And(s.irr, Not8(mask)),
                                    !.last_irr = And(s.last_irr, Not8(mask))]
                     ELSE [s EXCEPT !.last_irr = And(s.last_irr, Not8(mask))]
    IN  pic_update_irq([m EXCEPT !.pics[u] = s1], u)

\* mutant: every line is level-triggered, irr follows the input level
pic_set_irq1_level_only(m, u, irq, lv) ==
    LET s    == m.pics[u]
        mask == Shl1(irq)
        s1   == IF lv # 0
                THEN [s EXCEPT !.irr = Or(s.irr, mask),
                               !.last_irr = Or(s.last_irr, mask)]
                ELSE [s EXCEPT !.irr = And(s.irr, Not8(mask)),
                               !.last_irr = And(s.last_irr, Not8(mask))]
    IN  pic_update_irq([m EXCEPT !.pics[u] = s1], u)

pic_set_irq1(m, u, irq, lv) ==
    LET s    == m.pics[u]
        mask == Shl1(irq)
        s1   == IF And(s.elcr, mask) # 0
                THEN IF lv # 0
                     THEN [s EXCEPT !.irr = Or(s.irr, mask),
                                    !.last_irr = Or(s.last_irr, mask)]
                     ELSE [s EXCEPT !.irr = And(s.irr, Not8(mask)),
                                    !.last_irr = And(s.last_irr, Not8(mask))]
                ELSE IF lv # 0
                     THEN [s EXCEPT !.irr = IF And(s.last_irr, mask) = 0
                                            THEN Or(s.irr, mask) ELSE s.irr,
                                    !.last_irr = Or(s.last_irr, mask)]
                     ELSE [s EXCEPT !.last_irr = And(s.last_irr, Not8(mask))]
    IN  pic_update_irq([m EXCEPT !.pics[u] = s1], u)

\* mutant: every handle is routed to the master
i8259_set_irq_master_only(m, irq, lv) == pic_set_irq1(m, 0, irq % 8, lv)

i8259_set_irq(m, irq, lv) == pic_set_irq1(m, irq \div 8, irq % 8, lv)

qemu_set_irq(m, u, lv) ==
    IF u = 0
    THEN [m EXCEPT !.wire[0] = lv]
    ELSE i8259_set_irq([m EXCEPT !.wire[1] = lv], 2, lv)

pic_update_irq(m, u) ==
    IF pic_get_irq(m.pics[u], u) >= 0
    THEN qemu_set_irq(m, u, 1)
    ELSE qemu_set_irq(m, u, 0)

(***************************************************************************)
(* Interrupt acknowledge.                                                  *)
(***************************************************************************)
\* mutant: latches isr in auto-EOI mode as well
pic_intack_isr_in_aeoi(m, u, irq) ==
    LET s  == m.pics[u]
        s1 == [s EXCEPT !.isr = Or(s.isr, Shl1(irq)),
                        !.priority_add =
                            IF s.auto_eoi # 0 /\ s.rotate_on_auto_eoi # 0
                            THEN (irq + 1) % 8 ELSE s.priority_add]
        s2 == IF And(s1.elcr, Shl1(irq)) = 0
              THEN [s1 EXCEPT !.irr = And(s1.irr, Not8(Shl1(irq)))]
              ELSE s1
    IN  pic_update_irq([m EXCEPT !.pics[u] = s2], u)

\* mutant: leaves the request latched after the acknowledge
pic_intack_keep_irr(m, u, irq) ==
    LET s  == m.pics[u]
        s1 == IF s.auto_eoi # 0
              THEN IF s.rotate_on_auto_eoi # 0
                   THEN [s EXCEPT !.priority_add = (irq + 1) % 8]
                   ELSE s
              ELSE [s EXCEPT !.isr = Or(s.isr, Shl1(irq))]
    IN  pic_update_irq([m EXCEPT !.pics[u] = s1], u)

pic_intack(m, u, irq) ==
    LET s  == m.pics[u]
        s1 == IF s.auto_eoi # 0
              THEN IF s.rotate_on_auto_eoi # 0
                   THEN [s EXCEPT !.priority_add = (irq + 1) % 8]
                   ELSE s
              ELSE [s EXCEPT !.isr = Or(s.isr, Shl1(irq))]
        s2 == IF And(s1.elcr, Shl1(irq)) = 0
              THEN [s1 EXCEPT !.irr = And(s1.irr, Not8(Shl1(irq)))]
              ELSE s1
    IN  pic_update_irq([m EXCEPT !.pics[u] = s2], u)

\* mutant: a spurious slave is acknowledged as line 7
pic_read_irq_intack_spurious_slave(m) ==
    LET irq == pic_get_irq(m.pics[0], 0)
    IN  IF irq >= 0
        THEN IF irq = 2
             THEN LET irq2 == pic_get_irq(m.pics[1], 1)
                      n2   == IF irq2 >= 0 THEN irq2 ELSE 7
                      m1   == pic_intack(m, 1, n2)
                  IN  [ m   |-> pic_intack(m1, 0, irq),
                        ret |-> m1.pics[1].irq_base + n2 ]
             ELSE [ m   |-> pic_intack(m, 0, irq),
                    ret |-> m.pics[0].irq_base + irq ]
        ELSE [ m |-> m, ret |-> m.pics[0].irq_base + 7 ]

\* mutant: a spurious master is acknowledged as line 7
pic_read_irq_intack_spurious_master(m) ==
    LET irq == pic_get_irq(m.pics[0], 0)
    IN  IF irq >= 0
        THEN IF irq = 2
             THEN LET irq2 == pic_get_irq(m.pics[1], 1)
                      m1   == IF irq2 >= 0 THEN pic_intack(m, 1, irq2) ELSE m
                      n2   == IF irq2 >= 0 THEN irq2 ELSE 7
                  IN  [ m   |-> pic_intack(m1, 0, irq),
                        ret |-> m1.pics[1].irq_base + n2 ]
             ELSE [ m   |-> pic_intack(m, 0, irq),
                    ret |-> m.pics[0].irq_base + irq ]
        ELSE [ m |-> pic_intack(m, 0, 7), ret |-> m.pics[0].irq_base + 7 ]

\* returns the machine after the call and intno
pic_read_irq(m) ==
    LET irq == pic_get_irq(m.pics[0], 0)
    IN  IF irq >= 0
        THEN IF irq = 2
             THEN LET irq2 == pic_get_irq(m.pics[1], 1)
                      m1   == IF irq2 >= 0 THEN pic_intack(m, 1, irq2) ELSE m
                      n2   == IF irq2 >= 0 THEN irq2 ELSE 7
                  IN  [ m   |-> pic_intack(m1, 0, irq),
                        ret |-> m1.pics[1].irq_base + n2 ]
             ELSE [ m   |-> pic_intack(m, 0, irq),
                    ret |-> m.pics[0].irq_base + irq ]
        ELSE [ m |-> m, ret |-> m.pics[0].irq_base + 7 ]

(***************************************************************************)
(* Reset.                                                                  *)
(***************************************************************************)
\* mutant: the warm reset clears ELCR as the cold reset does
pic_init_reset_clears_elcr(m, u) ==
    LET s  == m.pics[u]
        s1 == [PicZero EXCEPT !.elcr_mask = s.elcr_mask]
    IN  pic_update_irq([m EXCEPT !.pics[u] = s1], u)

pic_init_reset(m, u) ==
    LET s  == m.pics[u]
        s1 == [PicZero EXCEPT !.elcr = s.elcr, !.elcr_mask = s.elcr_mask]
    IN  pic_update_irq([m EXCEPT !.pics[u] = s1], u)

\* mutant: the cold reset keeps ELCR as the warm reset does
pic_reset_keeps_elcr(m, u) == pic_init_reset(m, u)

pic_reset(m, u) ==
    LET m1 == pic_init_reset(m, u)
    IN  [m1 EXCEPT !.pics[u].elcr = 0]

(***************************************************************************)
(* I/O port writes.                                                        *)
(***************************************************************************)
\* hw_error() prints the message and aborts the emulator: it does not return
hw_error(m) == [m EXCEPT !.halted = TRUE]

\* mutant: rotate-on-EOI makes the cleared line the highest priority
pic_ocw2_rotate_to_line(m, u, val) ==
    LET s   == m.pics[u]
        cmd == val \div 32
    IN  CASE cmd \in {0, 4} ->
               [m EXCEPT !.pics[u].rotate_on_auto_eoi = cmd \div 4]
          [] cmd \in {1, 5} ->
               LET priority == get_priority(s, s.isr)
                   irq      == (priority + s.priority_add) % 8
                   s1       == [s EXCEPT !.isr = And(s.isr, Not8(Shl1(irq)))]
                   s2       == IF cmd = 5
                               THEN [s1 EXCEPT !.priority_add = irq % 8]
                               ELSE s1
               IN  IF priority # 8
                   THEN pic_update_irq([m EXCEPT !.pics[u] = s2], u)
                   ELSE m
          [] cmd = 3 ->
               LET irq == val % 8
               IN  pic_update_irq(
                     [m EXCEPT !.pics[u].isr = And(s.isr, Not8(Shl1(irq)))], u)
          [] cmd = 6 ->
               pic_update_irq([m EXCEPT !.pics[u].priority_add = (val + 1) % 8], u)
          [] cmd = 7 ->
               LET irq == val % 8
               IN  pic_update_irq(
                     [m EXCEPT !.pics[u].isr = And(s.isr, Not8(Shl1(irq))),
                               !.pics[u].priority_add = (irq + 1) % 8], u)
          [] OTHER -> m

\* OCW2, val has bits 3 and 4 clear
pic_ocw2(m, u, val) ==
    LET s   == m.pics[u]
        cmd == val \div 32
    IN  CASE cmd \in {0, 4} ->
               [m EXCEPT !.pics[u].rotate_on_auto_eoi = cmd \div 4]
          [] cmd \in {1, 5} ->
               LET priority == get_priority(s, s.isr)
                   irq      == (priority + s.priority_add) % 8
                   s1       == [s EXCEPT !.isr = And(s.isr, Not8(Shl1(irq)))]
                   s2       == IF cmd = 5
                               THEN [s1 EXCEPT !.priority_add = (irq + 1) % 8]
                               ELSE s1
               IN  IF priority # 8
                   THEN pic_update_irq([m EXCEPT !.pics[u] = s2], u)
                   ELSE m
          [] cmd = 3 ->
               LET irq == val % 8
               IN  pic_update_irq(
                     [m EXCEPT !.pics[u].isr = And(s.isr, Not8(Shl1(irq)))], u)
          [] cmd = 6 ->
               pic_update_irq([m EXCEPT !.pics[u].priority_add = (val + 1) % 8], u)
          [] cmd = 7 ->
               LET irq == val % 8
               IN  pic_update_irq(
                     [m EXCEPT !.pics[u].isr = And(s.isr, Not8(Shl1(irq))),
                               !.pics[u].priority_add = (irq + 1) % 8], u)
          [] OTHER -> m

\* mutant: ICW2 stores the written byte as the vector base unmasked
pic_ioport_write_icw2_unmasked(m, u, addr, val) ==
    LET s == m.pics[u]
    IN  IF addr = 0
        THEN IF And(val, 16) # 0
             THEN LET m1 == pic_init_reset(m, u)
                      m2 == [m1 EXCEPT !.pics[u].init_state = 1,
                                       !.pics[u].init4 = And(val, 1),
                                       !.pics[u].single_mode = And(val, 2)]
                  IN  IF And(val, 8) # 0
                      THEN hw_error(m2)
                      ELSE m2
             ELSE IF And(val, 8) # 0
             THEN LET s1 == IF And(val, 4) # 0 THEN [s EXCEPT !.poll = 1] ELSE s
                      s2 == IF And(val, 2) # 0
                            THEN [s1 EXCEPT !.read_reg_select = And(val, 1)]
                            ELSE s1
                      s3 == IF And(val, 64) # 0
                            THEN [s2 EXCEPT !.special_mask = (val \div 32) % 2]
                            ELSE s2
                  IN  [m EXCEPT !.pics[u] = s3]
             ELSE pic_ocw2(m, u, val)
        ELSE CASE s.init_state = 0 ->
                    pic_update_irq([m EXCEPT !.pics[u].imr = val], u)
               [] s.init_state = 1 ->
                    [m EXCEPT !.pics[u].irq_base = val,
                              !.pics[u].init_state =
                                  IF s.single_mode # 0
                                  THEN (IF s.init4 # 0 THEN 3 ELSE 0)
                                  ELSE 2]
               [] s.init_state = 2 ->
                    [m EXCEPT !.pics[u].init_state = IF s.init4 # 0 THEN 3 ELSE 0]
               [] s.init_state = 3 ->
                    [m EXCEPT !.pics[u].special_fully_nested_mode = (val \div 16) % 2,
                              !.pics[u].auto_eoi = (val \div 2) % 2,
                              !.pics[u].init_state = 0]
               [] OTHER -> m

\* mutant: ICW1 with bit 3 set is accepted as an initialisation
pic_ioport_write_accepts_ltim(m, u, addr, val) ==
    LET s == m.pics[u]
    IN  IF addr = 0
        THEN IF And(val, 16) # 0
             THEN LET m1 == pic_init_reset(m, u)
                      m2 == [m1 EXCEPT !.pics[u].init_state = 1,
                                       !.pics[u].init4 = And(val, 1),
                                       !.pics[u].single_mode = And(val, 2)]
                  IN  m2
             ELSE IF And(val, 8) # 0
             THEN LET s1 == IF And(val, 4) # 0 THEN [s EXCEPT !.poll = 1] ELSE s
                      s2 == IF And(val, 2) # 0
                            THEN [s1 EXCEPT !.read_reg_select = And(val, 1)]
                            ELSE s1
                      s3 == IF And(val, 64) # 0
                            THEN [s2 EXCEPT !.special_mask = (val \div 32) % 2]
                            ELSE s2
                  IN  [m EXCEPT !.pics[u] = s3]
             ELSE pic_ocw2(m, u, val)
        ELSE CASE s.init_state = 0 ->
                    pic_update_irq([m EXCEPT !.pics[u].imr = val], u)
               [] s.init_state = 1 ->
                    [m EXCEPT !.pics[u].irq_base = And(val, 248),
                              !.pics[u].init_state =
                                  IF s.single_mode # 0
                                  THEN (IF s.init4 # 0 THEN 3 ELSE 0)
                                  ELSE 2]
               [] s.init_state = 2 ->
                    [m EXCEPT !.pics[u].init_state = IF s.init4 # 0 THEN 3 ELSE 0]
               [] s.init_state = 3 ->
                    [m EXCEPT !.pics[u].special_fully_nested_mode = (val \div 16) % 2,
                              !.pics[u].auto_eoi = (val \div 2) % 2,
                              !.pics[u].init_state = 0]
               [] OTHER -> m

\* mutant: ICW2 is followed by ICW4 or IDLE whatever single_mode is
pic_ioport_write_skip_icw3(m, u, addr, val) ==
    LET s == m.pics[u]
    IN  IF addr = 0
        THEN IF And(val, 16) # 0
             THEN LET m1 == pic_init_reset(m, u)
                      m2 == [m1 EXCEPT !.pics[u].init_state = 1,
                                       !.pics[u].init4 = And(val, 1),
                                       !.pics[u].single_mode = And(val, 2)]
                  IN  IF And(val, 8) # 0
                      THEN hw_error(m2)
                      ELSE m2
             ELSE IF And(val, 8) # 0
             THEN LET s1 == IF And(val, 4) # 0 THEN [s EXCEPT !.poll = 1] ELSE s
                      s2 == IF And(val, 2) # 0
                            THEN [s1 EXCEPT !.read_reg_select = And(val, 1)]
                            ELSE s1
                      s3 == IF And(val, 64) # 0
                            THEN [s2 EXCEPT !.special_mask = (val \div 32) % 2]
                            ELSE s2
                  IN  [m EXCEPT !.pics[u] = s3]
             ELSE pic_ocw2(m, u, val)
        ELSE CASE s.init_state = 0 ->
                    pic_update_irq([m EXCEPT !.pics[u].imr = val], u)
               [] s.init_state = 1 ->
                    [m EXCEPT !.pics[u].irq_base = And(val, 248),
                              !.pics[u].init_state =
                                  IF s.init4 # 0 THEN 3 ELSE 0]
               [] s.init_state = 2 ->
                    [m EXCEPT !.pics[u].init_state = IF s.init4 # 0 THEN 3 ELSE 0]
               [] s.init_state = 3 ->
                    [m EXCEPT !.pics[u].special_fully_nested_mode = (val \div 16) % 2,
                              !.pics[u].auto_eoi = (val \div 2) % 2,
                              !.pics[u].init_state = 0]
               [] OTHER -> m

pic_ioport_write(m, u, addr, val) ==
    LET s == m.pics[u]
    IN  IF addr = 0
        THEN IF And(val, 16) # 0
             THEN LET m1 == pic_init_reset(m, u)
                      m2 == [m1 EXCEPT !.pics[u].init_state = 1,
                                       !.pics[u].init4 = And(val, 1),
                                       !.pics[u].single_mode = And(val, 2)]
                  IN  IF And(val, 8) # 0
                      THEN hw_error(m2)
                      ELSE m2
             ELSE IF And(val, 8) # 0
             THEN LET s1 == IF And(val, 4) # 0 THEN [s EXCEPT !.poll = 1] ELSE s
                      s2 == IF And(val, 2) # 0
                            THEN [s1 EXCEPT !.read_reg_select = And(val, 1)]
                            ELSE s1
                      s3 == IF And(val, 64) # 0
                            THEN [s2 EXCEPT !.special_mask = (val \div 32) % 2]
                            ELSE s2
                  IN  [m EXCEPT !.pics[u] = s3]
             ELSE pic_ocw2(m, u, val)
        ELSE CASE s.init_state = 0 ->
                    pic_update_irq([m EXCEPT !.pics[u].imr = val], u)
               [] s.init_state = 1 ->
                    [m EXCEPT !.pics[u].irq_base = And(val, 248),
                              !.pics[u].init_state =
                                  IF s.single_mode # 0
                                  THEN (IF s.init4 # 0 THEN 3 ELSE 0)
                                  ELSE 2]
               [] s.init_state = 2 ->
                    [m EXCEPT !.pics[u].init_state = IF s.init4 # 0 THEN 3 ELSE 0]
               [] s.init_state = 3 ->
                    [m EXCEPT !.pics[u].special_fully_nested_mode = (val \div 16) % 2,
                              !.pics[u].auto_eoi = (val \div 2) % 2,
                              !.pics[u].init_state = 0]
               [] OTHER -> m

(***************************************************************************)
(* I/O port reads and the memory-mapped acknowledge.                       *)
(***************************************************************************)
pic_poll_read(m, u) ==
    LET ret == pic_get_irq(m.pics[u], u)
    IN  IF ret >= 0
        THEN LET slave == (u = 1)
                 m1 == IF slave
                       THEN [m EXCEPT !.pics[0].isr = And(m.pics[0].isr, Not8(Shl1(2))),
                                      !.pics[0].irr = And(m.pics[0].irr, Not8(Shl1(2)))]
                       ELSE m
                 m2 == [m1 EXCEPT !.pics[u].irr = And(m1.pics[u].irr, Not8(Shl1(ret))),
                                  !.pics[u].isr = And(m1.pics[u].isr, Not8(Shl1(ret)))]
             IN  [ m   |-> IF slave \/ ret # 2 THEN pic_update_irq(m2, u) ELSE m2,
                   ret |-> ret ]
        ELSE [ m |-> m, ret |-> 7 ]

\* mutant: a read of offset 1 returns imr without consulting poll
pic_ioport_read_imr_first(m, u, addr) ==
    LET s == m.pics[u]
    IN  IF addr = 1
        THEN [ m |-> m, ret |-> s.imr ]
        ELSE IF s.poll # 0
             THEN LET r == pic_poll_read(m, u)
                  IN  [ m |-> [r.m EXCEPT !.pics[u].poll = 0], ret |-> r.ret ]
             ELSE [ m |-> m, ret |-> IF s.read_reg_select # 0 THEN s.isr ELSE s.irr ]

pic_ioport_read(m, u, addr) ==
    LET s == m.pics[u]
    IN  IF s.poll # 0
        THEN LET r == pic_poll_read(m, u)
             IN  [ m |-> [r.m EXCEPT !.pics[u].poll = 0], ret |-> r.ret ]
        ELSE IF addr = 0
             THEN [ m |-> m, ret |-> IF s.read_reg_select # 0 THEN s.isr ELSE s.irr ]
             ELSE [ m |-> m, ret |-> s.imr ]

\* mutant: the slave is polled whatever the master's result
pic_intack_read_always_slave(m) ==
    LET r0 == pic_poll_read(m, 0)
        r  == pic_poll_read(r0.m, 1)
        r1 == [ m |-> r.m, ret |-> r.ret + 8 ]
    IN  [ m   |-> [r1.m EXCEPT !.pics[0].read_reg_select = 1],
          ret |-> r1.ret ]

pic_intack_read(m) ==
    LET r0 == pic_poll_read(m, 0)
        r1 == IF r0.ret = 2
              THEN LET r == pic_poll_read(r0.m, 1)
                   IN  [ m |-> r.m, ret |-> r.ret + 8 ]
              ELSE r0
    IN  [ m   |-> [r1.m EXCEPT !.pics[0].read_reg_select = 1],
          ret |-> r1.ret ]

\* mutant: the written byte is stored unmasked
elcr_ioport_write_unmasked(m, u, val) ==
    [m EXCEPT !.pics[u].elcr = val]

elcr_ioport_write(m, u, val) ==
    [m EXCEPT !.pics[u].elcr = And(val, m.pics[u].elcr_mask)]

elcr_ioport_read(m, u) ==
    [ m |-> m, ret |-> m.pics[u].elcr ]

(***************************************************************************)
(* The state machine: one action per entry point.                          *)
(***************************************************************************)
Machine == [ pics |-> pics, wire |-> wire, halted |-> halted ]

Units == 0..1

UnitOf(i) == i \div 8

\* the firmware programs run before the first step: none, the PC BIOS
\* sequence, the master in auto-EOI mode, the master in special fully
\* nested mode; each entry is <<unit, offset, byte>>
BootPrograms ==
    { << >>,
      << <<0, 0, 17>>, <<0, 1, 32>>, <<0, 1, 4>>, <<0, 1, 1>>,
         <<1, 0, 17>>, <<1, 1, 40>>, <<1, 1, 2>>, <<1, 1, 1>> >>,
      << <<0, 0, 17>>, <<0, 1, 32>>, <<0, 1, 4>>, <<0, 1, 3>>,
         <<1, 0, 17>>, <<1, 1, 40>>, <<1, 1, 2>>, <<1, 1, 1>> >>,
      << <<0, 0, 17>>, <<0, 1, 32>>, <<0, 1, 4>>, <<0, 1, 17>>,
         <<1, 0, 17>>, <<1, 1, 40>>, <<1, 1, 2>>, <<1, 1, 1>> >> }

RECURSIVE RunWrites(_, _)
RunWrites(m, prog) ==
    IF prog = << >>
    THEN m
    ELSE LET w == Head(prog)
             n == CHOOSE x \in {pic_ioport_write(m, w[1], w[2], w[3])} : TRUE
         IN  RunWrites(n, Tail(prog))

Call(name, u, a, v, ret) == [ name |-> name, u |-> u, a |-> a, v |-> v, ret |-> ret ]

Init ==
    /\ \E prog \in BootPrograms :
         LET m == RunWrites(i8259_init, prog)
         IN  /\ pics = m.pics
             /\ wire = m.wire
             /\ halted = m.halted
    /\ op = Call("init", 0, 0, 0, 0)
    /\ steps = 0
    /\ level = [i \in AllLines |-> 0]
    /\ nset = [i \in AllLines |-> 0]
    /\ nset_r = [i \in AllLines |-> 0]

Ready == ~halted /\ steps < MaxSteps

\* the machine part of a step
Becomes(m) ==
    /\ pics' = m.pics
    /\ wire' = m.wire
    /\ halted' = m.halted
    /\ steps' = steps + 1

\* a reset of unit u re-arms the edge detection of its lines
Rearm(u) == [i \in AllLines |-> IF UnitOf(i) = u THEN 0 ELSE nset_r[i]]

\* set_line(i, lv): a device drives one of the 16 input handles
SetLineIn(lines) ==
    \E i \in lines, lv \in 0..1 :
        LET m   == i8259_set_irq(Machine, i, lv)
            u   == UnitOf(i)
            b   == i % 8
            set == /\ lv = 1
                   /\ Bit(pics[u].elcr, b) = 0
                   /\ Bit(pics[u].irr, b) = 0
                   /\ Bit(m.pics[u].irr, b) = 1
            cnt(n) == IF lv = 0 THEN 0
                      ELSE IF set /\ n < 2 THEN n + 1 ELSE n
        IN  /\ Ready
            /\ Becomes(m)
            /\ op' = Call("set_line", u, i, lv, 0)
            /\ level' = [level EXCEPT ![i] = lv]
            /\ nset' = [nset EXCEPT ![i] = cnt(nset[i])]
            /\ nset_r' = [nset_r EXCEPT ![i] = cnt(nset_r[i])]

SetLine == SetLineIn(DevLines)

\* ack(): the processor's interrupt acknowledge cycle; op records the
\* pending line of each unit before the call
Ack ==
    LET r == pic_read_irq(Machine)
    IN  /\ Ready
        /\ Becomes(r.m)
        /\ op' = Call("ack", 0, pic_get_irq(pics[0], 0), pic_get_irq(pics[1], 1), r.ret)
        /\ UNCHANGED <<level, nset, nset_r>>

\* the memory-mapped acknowledge
IntackRead ==
    LET r == pic_intack_read(Machine)
    IN  /\ Ready
        /\ Becomes(r.m)
        /\ op' = Call("intack_read", 0, pic_get_irq(pics[0], 0),
                      pic_get_irq(pics[1], 1), r.ret)
        /\ UNCHANGED <<level, nset, nset_r>>

Write0 ==
    \E u \in Units, val \in Cmd0Vals :
        /\ Ready
        /\ Becomes(pic_ioport_write(Machine, u, 0, val))
        /\ op' = Call("write", u, 0, val, 0)
        /\ nset_r' = IF And(val, 16) # 0 THEN Rearm(u) ELSE nset_r
        /\ UNCHANGED <<level, nset>>

Write1 ==
    \E u \in Units, val \in Cmd1Vals :
        /\ Ready
        /\ Becomes(pic_ioport_write(Machine, u, 1, val))
        /\ op' = Call("write", u, 1, val, 0)
        /\ UNCHANGED <<level, nset, nset_r>>

Read ==
    \E u \in Units, addr \in 0..1 :
        LET r == pic_ioport_read(Machine, u, addr)
        IN  /\ Ready
            /\ Becomes(r.m)
            /\ op' = Call("read", u, addr, pics[u].poll, r.ret)
            /\ UNCHANGED <<level, nset, nset_r>>

ElcrWrite ==
    \E u \in Units, val \in ElcrVals :
        /\ Ready
        /\ Becomes(elcr_ioport_write(Machine, u, val))
        /\ op' = Call("elcr_write", u, 0, val, 0)
        /\ UNCHANGED <<level, nset, nset_r>>

ElcrRead ==
    \E u \in Units :
        LET r == elcr_ioport_read(Machine, u)
        IN  /\ Ready
            /\ Becomes(r.m)
            /\ op' = Call("elcr_read", u, 0, 0, r.ret)
            /\ UNCHANGED <<level, nset, nset_r>>

\* cold reset: the handler registered with qemu_register_reset
Reset ==
    \E u \in Units :
        /\ Ready
        /\ Becomes(pic_reset(Machine, u))
        /\ op' = Call("reset", u, 0, 0, 0)
        /\ nset_r' = Rearm(u)
        /\ UNCHANGED <<level, nset>>

Next ==
    \/ SetLine
    \/ Ack
    \/ IntackRead
    \/ Write0
    \/ Write1
    \/ Read
    \/ ElcrWrite
    \/ ElcrRead
    \/ Reset

Spec == Init /\ [][Next]_vars

(***************************************************************************)
(* The cascade path on all sixteen handles: devices drive any line, the    *)
(* processor acknowledges and ends interrupts.                             *)
(***************************************************************************)
SetLineAll == SetLineIn(AllLines)

\* OCW2 non-specific EOI, 0x20
Eoi ==
    \E u \in Units :
        /\ Ready
        /\ Becomes(pic_ioport_write(Machine, u, 0, 32))
        /\ op' = Call("write", u, 0, 32, 0)
        /\ UNCHANGED <<level, nset, nset_r>>

NextCascade ==
    \/ SetLineAll
    \/ Ack
    \/ Eoi

SpecCascade == Init /\ [][NextCascade]_vars

(***************************************************************************)
(* Initialisation runs: the firmware writes ICW1 and the bytes that follow *)
(* it to the two ports of either unit.                                     *)
(***************************************************************************)
WriteIcw1 ==
    \E u \in Units, val \in Icw1Vals :
        /\ ~halted
        /\ steps < MaxInitSteps
        /\ Becomes(pic_ioport_write(Machine, u, 0, val))
        /\ op' = Call("write", u, 0, val, 0)
        /\ nset_r' = Rearm(u)
        /\ UNCHANGED <<level, nset>>

WriteData ==
    \E u \in Units, val \in InitDataVals :
        /\ ~halted
        /\ steps < MaxInitSteps
        /\ Becomes(pic_ioport_write(Machine, u, 1, val))
        /\ op' = Call("write", u, 1, val, 0)
        /\ UNCHANGED <<level, nset, nset_r>>

NextInitSeq ==
    \/ WriteIcw1
    \/ WriteData

SpecInitSeq == Init /\ [][NextInitSeq]_vars

(***************************************************************************)
(* The pending selection on its own: both units hold the same register     *)
(* valuation, drawn from bounded sets, and pic_get_irq is applied to one   *)
(* of them.                                                                *)
(***************************************************************************)
BitCount(x) ==
    Bit(x, 0) + Bit(x, 1) + Bit(x, 2) + Bit(x, 3)
    + Bit(x, 4) + Bit(x, 5) + Bit(x, 6) + Bit(x, 7)

PendIrrVals == {x \in 0..255 : BitCount(x) <= MaxRequests}

PendIsrVals == {x \in 0..255 : BitCount(x) <= MaxInService}

InitPending ==
    /\ \E r \in PendIrrVals, i \in PendImrVals, v \in PendIsrVals,
          pa \in 0..7, sm \in 0..1, fn \in 0..1 :
         pics = [u \in Units |->
                   [i8259_init.pics[u] EXCEPT
                      !.irr = r, !.imr = i, !.isr = v, !.priority_add = pa,
                      !.special_mask = sm, !.special_fully_nested_mode = fn]]
    /\ wire = i8259_init.wire
    /\ halted = i8259_init.halted
    /\ op = Call("init", 0, 0, 0, 0)
    /\ steps = 0
    /\ level = [i \in AllLines |-> 0]
    /\ nset = [i \in AllLines |-> 0]
    /\ nset_r = [i \in AllLines |-> 0]

\* one call of pic_get_irq on unit u; op records the priority found for the
\* request mask (8 if it is empty) and the value returned
GetIrq ==
    \E u \in Units :
        LET s == pics[u]
        IN  /\ steps = 0
            /\ steps' = 1
            /\ op' = Call("get_irq", u, get_priority(s, And(s.irr, Not8(s.imr))),
                          0, pic_get_irq(s, u))
            /\ UNCHANGED <<pics, wire, halted, level, nset, nset_r>>

NextPending == GetIrq

SpecPending == InitPending /\ [][NextPending]_vars

(***************************************************************************)
(* Delivery runs: both units are initialised by the firmware in some ICW4  *)
(* mode; devices drive their lines, the processor acknowledges when the    *)
(* master's output is high and ends the interrupts that are in service.    *)
(***************************************************************************)
DeliveryPrograms ==
    { << <<0, 0, 17>>, <<0, 1, 32>>, <<0, 1, 4>>, <<0, 1, m4>>,
         <<1, 0, 17>>, <<1, 1, 40>>, <<1, 1, 2>>, <<1, 1, s4>> >> :
      m4 \in Icw4Vals, s4 \in Icw4Vals }

InitDelivery ==
    /\ \E prog \in DeliveryPrograms :
         LET m == RunWrites(i8259_init, prog)
         IN  /\ pics = m.pics
             /\ wire = m.wire
             /\ halted = m.halted
    /\ op = Call("init", 0, 0, 0, 0)
    /\ steps = 0
    /\ level = [i \in AllLines |-> 0]
    /\ nset = [i \in AllLines |-> 0]
    /\ nset_r = [i \in AllLines |-> 0]

DeliveryReady == ~halted /\ steps < MaxDeliverySteps

\* a device changes the level of its line
DeviceLine ==
    \E i \in DeliveryLines :
        LET lv == 1 - level[i]
            m  == i8259_set_irq(Machine, i, lv)
        IN  /\ DeliveryReady
            /\ Becomes(m)
            /\ op' = Call("set_line", UnitOf(i), i, lv, 0)
            /\ level' = [level EXCEPT ![i] = lv]
            /\ UNCHANGED <<nset, nset_r>>

\* the processor takes the interrupt: ack() while the master's output is high
AckOnInt ==
    LET r == pic_read_irq(Machine)
    IN  /\ DeliveryReady
        /\ wire[0] = 1
        /\ Becomes(r.m)
        /\ op' = Call("ack", 0, pic_get_irq(pics[0], 0), pic_get_irq(pics[1], 1), r.ret)
        /\ UNCHANGED <<level, nset, nset_r>>

\* the handler ends an interrupt in service: OCW2 non-specific EOI, 0x20
EoiInService ==
    \E u \in Units :
        /\ DeliveryReady
        /\ pics[u].isr # 0
        /\ Becomes(pic_ioport_write(Machine, u, 0, 32))
        /\ op' = Call("write", u, 0, 32, 0)
        /\ UNCHANGED <<level, nset, nset_r>>

NextDelivery ==
    \/ DeviceLine
    \/ AckOnInt
    \/ EoiInService

SpecDelivery == InitDelivery /\ [][NextDelivery]_vars

(***************************************************************************)
(* Properties.  In an action formula the unprimed variables are the state  *)
(* before the call named by op' and the primed ones the state after it.    *)
(***************************************************************************)
Pending(u) == pic_get_irq(pics[u], u)

Level(b) == IF b THEN 1 ELSE 0

\* the isr bits of unit u that are 0 before the step and 1 after it
NewIsr(u) == {i \in 0..7 : Bit(pics[u].isr, i) = 0 /\ Bit(pics'[u].isr, i) = 1}

\* the isr bits of unit u that differ across the step
ChangedIsr(u) == {i \in 0..7 : Bit(pics[u].isr, i) # Bit(pics'[u].isr, i)}

\* C1: after every public operation each unit's output wire is high exactly
\* when that unit's pending selection is a line.
C1_OutputTracksPending ==
    \A u \in Units : wire[u] = Level(Pending(u) >= 0)

\* C2 (as claimed): an ack() whose acknowledged unit has auto_eoi clear sets
\* exactly one new isr bit, the acknowledged line on the acknowledged unit
\* (the slave's line in a cascaded acknowledge), and changes no other isr
\* bit of either unit.
C2_OneNewIsrBit ==
    [][ LET pm == Pending(0)
            ps == Pending(1)
            au == IF pm = 2 /\ ps >= 0 THEN 1 ELSE 0
            al == IF pm = 2 /\ ps >= 0 THEN ps ELSE pm
        IN  (op'.name = "ack" /\ pm >= 0 /\ pics[au].auto_eoi = 0)
            => /\ NewIsr(au) = {al}
               /\ ChangedIsr(au) = {al}
               /\ ChangedIsr(1 - au) = {}
      ]_vars

\* C2 (amended): ack() sets, on each unit it acknowledges a line on and whose
\* auto_eoi is clear, the isr bit of that line (the master's pending line;
\* in a cascaded acknowledge also the slave's pending line) and changes no
\* other isr bit; the bit was 0 before unless it is master bit 2 in special
\* fully nested mode.  A unit in auto-EOI mode, or not acknowledged, keeps isr.
C2_IsrBitPerAcknowledgedUnit ==
    [][ LET pm == Pending(0)
            ps == Pending(1)
            am == IF pm >= 0 /\ pics[0].auto_eoi = 0 THEN {pm} ELSE {}
            as == IF pm = 2 /\ ps >= 0 /\ pics[1].auto_eoi = 0 THEN {ps} ELSE {}
        IN  op'.name = "ack"
            => /\ ChangedIsr(0) \subseteq am
               /\ ChangedIsr(1) \subseteq as
               /\ \A i \in am : Bit(pics'[0].isr, i) = 1
               /\ \A i \in as : Bit(pics'[1].isr, i) = 1
               /\ NewIsr(1) = as
               /\ \/ NewIsr(0) = am
                  \/ /\ pm = 2
                     /\ pics[0].special_fully_nested_mode # 0
                     /\ NewIsr(0) = {}
      ]_vars

\* a cascaded acknowledge has just set slave bit K and master bit 2
C2_Witness ==
    /\ op.name = "ack"
    /\ op.a = 2
    /\ op.v >= 0
    /\ pics[0].auto_eoi = 0
    /\ pics[1].auto_eoi = 0
    /\ pics[1].isr = Shl1(op.v)
    /\ pics[0].isr = Shl1(2)

\* C3: when the master's pending line L is not 2, ack() returns
\* master.irq_base + L, sets master isr bit L unless auto_eoi, clears master
\* irr bit L if the line is edge-triggered, leaves the slave untouched and
\* re-evaluates the master output.  After init (irr, isr, imr zero, line low)
\* set_line(L,1) on an edge line raises the output, and the ack() that
\* follows leaves isr = 1<<L, irr bit L clear and the output low.
C3_AckMasterLine ==
    [][ LET L == Pending(0)
            s == pics[0]
            t == pics'[0]
            i == op'.a
        IN  /\ (op'.name = "ack" /\ L >= 0 /\ L # 2)
               => /\ op'.ret = s.irq_base + L
                  /\ t.isr = IF s.auto_eoi = 0 THEN Or(s.isr, Shl1(L)) ELSE s.isr
                  /\ t.irr = IF Bit(s.elcr, L) = 0
                             THEN And(s.irr, Not8(Shl1(L))) ELSE s.irr
                  /\ pics'[1] = pics[1]
                  /\ wire'[1] = wire[1]
                  /\ wire'[0] = Level(pic_get_irq(t, 0) >= 0)
                  /\ (/\ op.name = "set_line" /\ op.a = L /\ op.v = 1
                      /\ s.irr = Shl1(L) /\ s.isr = 0 /\ s.imr = 0
                      /\ s.auto_eoi = 0 /\ Bit(s.elcr, L) = 0)
                     => (t.isr = Shl1(L) /\ Bit(t.irr, L) = 0 /\ wire'[0] = 0)
            /\ (/\ op'.name = "set_line" /\ op'.v = 1 /\ i < 8
                /\ s.irr = 0 /\ s.isr = 0 /\ s.imr = 0
                /\ Bit(s.last_irr, i) = 0 /\ Bit(s.elcr, i) = 0)
               => (t.irr = Shl1(i) /\ t.isr = 0 /\ t.imr = 0 /\ wire'[0] = 1)
      ]_vars

\* the BIOS-programmed master has just acknowledged line 3 with vector 0x23
C3_Witness ==
    /\ op.name = "ack"
    /\ op.a = 3
    /\ op.ret = 35
    /\ pics[0].irq_base = 32
    /\ pics[0].isr = Shl1(3)
    /\ Bit(pics[0].irr, 3) = 0
    /\ wire[0] = 0

\* C4: with both units initialised (irr, isr, imr, last_irr zero, no
\* auto-EOI), set_line(8+k,1) for any slave line k sets master irr bit 2 and
\* raises the master output through the slave's output, and the next ack()
\* returns slave.irq_base + k with slave isr bit k and master isr bit 2 set.
C4_CascadePath ==
    [][ LET k == op.a - 8
            Clean(s) == s.isr = 0 /\ s.imr = 0 /\ s.auto_eoi = 0
        IN  /\ (/\ op'.name = "set_line" /\ op'.a >= 8 /\ op'.v = 1
                /\ \A u \in Units :
                     Clean(pics[u]) /\ pics[u].irr = 0 /\ pics[u].last_irr = 0)
               => /\ pics'[1].irr = Shl1(op'.a - 8)
                  /\ wire'[1] = 1
                  /\ Bit(pics'[0].irr, 2) = 1
                  /\ pics'[0].irr = Shl1(2)
                  /\ wire'[0] = 1
                  /\ \A u \in Units : Clean(pics'[u])
            /\ (/\ op.name = "set_line" /\ op.a >= 8 /\ op.v = 1
                /\ op'.name = "ack"
                /\ pics[1].irr = Shl1(k) /\ pics[0].irr = Shl1(2)
                /\ \A u \in Units : Clean(pics[u]))
               => /\ op'.ret = pics[1].irq_base + k
                  /\ Bit(pics'[1].isr, k) = 1
                  /\ Bit(pics'[0].isr, 2) = 1
      ]_vars

\* slave line 15 was raised on the BIOS-programmed pair and acknowledged
\* with vector 0x28 + 7
C4_Witness ==
    /\ op.name = "ack"
    /\ op.a = 2
    /\ op.v = 7
    /\ op.ret = 47
    /\ pics[1].irq_base = 40
    /\ pics[1].isr = Shl1(7)
    /\ pics[0].isr = Shl1(2)
    /\ level[15] = 1

\* what intack on the master with line 2 leaves behind (line 2 is always
\* edge-triggered: elcr_mask keeps its ELCR bit 0)
MasterIntack2 ==
    LET s == pics[0]
        t == pics'[0]
    IN  /\ t.isr = IF s.auto_eoi = 0 THEN Or(s.isr, Shl1(2)) ELSE s.isr
        /\ t.irr = And(s.irr, Not8(Shl1(2)))
        /\ t.priority_add = IF s.auto_eoi # 0 /\ s.rotate_on_auto_eoi # 0
                            THEN 3 ELSE s.priority_add
        /\ wire'[0] = Level(pic_get_irq(t, 0) >= 0)

\* C5 (as claimed): when pending(master) is 2 and pending(slave) is none,
\* ack() applies intack to the slave with line 7 (slave isr bit 7 set unless
\* auto_eoi, slave irr bit 7 cleared if edge, slave output re-evaluated),
\* returns slave.irq_base + 7 and applies intack to the master with line 2.
C5_SpuriousSlaveIntack7 ==
    [][ (op'.name = "ack" /\ Pending(0) = 2 /\ Pending(1) = -1)
        => /\ op'.ret = pics[1].irq_base + 7
           /\ pics[1].auto_eoi = 0 => Bit(pics'[1].isr, 7) = 1
           /\ Bit(pics[1].elcr, 7) = 0 => Bit(pics'[1].irr, 7) = 0
           /\ wire'[1] = Level(pic_get_irq(pics'[1], 1) >= 0)
           /\ MasterIntack2
      ]_vars

\* C5 (amended): when pending(master) is 2 and pending(slave) is none, ack()
\* returns slave.irq_base + 7, applies intack to the master with line 2 and
\* applies no intack to the slave: no slave register and not the slave's
\* output changes.
C5_SpuriousSlaveUntouched ==
    [][ (op'.name = "ack" /\ Pending(0) = 2 /\ Pending(1) = -1)
        => /\ op'.ret = pics[1].irq_base + 7
           /\ pics'[1] = pics[1]
           /\ wire'[1] = wire[1]
           /\ MasterIntack2
      ]_vars

\* a cascaded acknowledge found no slave line pending and returned 0x28 + 7
C5_Witness ==
    /\ op.name = "ack"
    /\ op.a = 2
    /\ op.v = -1
    /\ op.ret = 47
    /\ pics[1].isr = 0
    /\ Bit(pics[0].isr, 2) = 1

\* C6: when pending(master) is none, ack() returns master.irq_base + 7 and
\* changes no register of either unit and neither output wire.
C6_SpuriousMasterNoChange ==
    [][ (op'.name = "ack" /\ Pending(0) = -1)
        => /\ op'.ret = pics[0].irq_base + 7
           /\ pics' = pics
           /\ wire' = wire
           /\ halted' = halted
      ]_vars

\* a spurious acknowledge with a masked request latched: vector 0x20 + 7
C6_Witness ==
    /\ op.name = "ack"
    /\ op.a = -1
    /\ op.ret = 39
    /\ pics[0].irr # 0
    /\ pics[0].isr = 0

\* C7 (as claimed): on a line whose ELCR bit is 0, the set_line(i,1) calls
\* made since the last set_line(i,0) set the irr bit at most once, whatever
\* other operations (including ICW1 and resets) are interleaved.
C7_OneEdgePerHighLevel ==
    \A i \in AllLines : nset[i] <= 1

\* C7 (amended): on a line whose ELCR bit is 0, the set_line(i,1) calls made
\* since the last set_line(i,0) and since the last reset of the line's unit
\* (ICW1 or cold reset, which clear last_irr and re-arm the edge detection)
\* set the irr bit at most once, whatever other operations are interleaved.
C7_OneEdgePerHighLevelSinceReset ==
    \A i \in AllLines : nset_r[i] <= 1

\* the line was raised and latched, the request was consumed, and a second
\* set_line(i,1) with the line still high has not latched it again
C7_Witness ==
    /\ op.name = "set_line"
    /\ op.v = 1
    /\ nset_r[op.a] = 1
    /\ Bit(pics[op.u].elcr, op.a % 8) = 0
    /\ Bit(pics[op.u].last_irr, op.a % 8) = 1
    /\ Bit(pics[op.u].irr, op.a % 8) = 0

\* C8: no operation other than set_line makes the irr bit of a
\* level-triggered line (ELCR bit 1) differ from the level most recently
\* supplied for it: if the bit equals the input level before an ack, a read,
\* a port write or a reset that keeps the line level-triggered, it equals
\* the input level after it.
C8_LevelIrrTracksInput ==
    [][ \A i \in AllLines :
          LET u == UnitOf(i)
              b == i % 8
          IN  (/\ Bit(pics[u].elcr, b) = 1
               /\ Bit(pics'[u].elcr, b) = 1
               /\ Bit(pics[u].irr, b) = level[i])
              => Bit(pics'[u].irr, b) = level'[i]
      ]_vars

\* C9: an ELCR write of v leaves elcr = v & elcr_mask, with elcr_mask 0xF8
\* on the master and 0xDE on the slave; elcr never has a bit outside
\* elcr_mask, so master lines 0-2 and slave lines 0 and 5 stay
\* edge-triggered; an ELCR read returns elcr and changes no state.
C9_ElcrMasked ==
    [][ LET u == op'.u
        IN  /\ op'.name = "elcr_write"
               => /\ pics'[u].elcr = And(op'.v, IF u = 0 THEN 248 ELSE 222)
                  /\ pics'[u].elcr = And(op'.v, pics[u].elcr_mask)
            /\ op'.name = "elcr_read"
               => /\ op'.ret = pics[u].elcr
                  /\ pics' = pics
                  /\ wire' = wire
                  /\ halted' = halted
            /\ \A w \in Units :
                 /\ And(pics'[w].elcr, Not8(pics'[w].elcr_mask)) = 0
                 /\ pics'[w].elcr_mask = IF w = 0 THEN 248 ELSE 222
            /\ \A b \in {0, 1, 2} : Bit(pics'[0].elcr, b) = 0
            /\ \A b \in {0, 5} : Bit(pics'[1].elcr, b) = 0
      ]_vars

\* 0xFF was written to the slave's ELCR port and 0xDE was stored
C9_Witness ==
    /\ op.name = "elcr_write"
    /\ op.u = 1
    /\ op.v = 255
    /\ pics[1].elcr = 222

\* the registers of unit u after an ICW1 write of val
AfterIcw1(u, val) ==
    [PicZero EXCEPT !.elcr = pics[u].elcr,
                    !.elcr_mask = pics[u].elcr_mask,
                    !.init_state = 1,
                    !.init4 = And(val, 1),
                    !.single_mode = And(val, 2)]

IsIcw1(c) == c.name = "write" /\ c.a = 0 /\ And(c.v, 16) # 0

\* C10 (as claimed): ICW1 keeps the unit's elcr and elcr_mask, zeroes its
\* other registers, sets init_state = AWAIT_ICW2, init4 = val & 1 and
\* single_mode = val & 2, and writes no register of the other unit.
C10_WarmResetFrame ==
    [][ IsIcw1(op')
        => /\ pics'[op'.u] = AfterIcw1(op'.u, op'.v)
           /\ pics'[1 - op'.u] = pics[1 - op'.u]
      ]_vars

\* C10 (amended): as claimed for the unit written; an ICW1 written to the
\* master writes no slave register, and an ICW1 written to the slave lowers
\* the slave's output, which clears bit 2 of the master's last_irr and
\* changes no other master register.
C10_WarmResetFrameCascade ==
    [][ IsIcw1(op')
        => /\ pics'[op'.u] = AfterIcw1(op'.u, op'.v)
           /\ op'.u = 0 => pics'[1] = pics[1]
           /\ op'.u = 1 =>
                /\ pics'[0] = [pics[0] EXCEPT
                                 !.last_irr = And(pics[0].last_irr, Not8(Shl1(2)))]
                /\ wire'[1] = 0
      ]_vars

\* ICW1 was written to the slave while its request was routed to the master:
\* the slave is in AWAIT_ICW2 with its ELCR kept, the master still has irr
\* bit 2 latched and its last_irr bit 2 cleared
C10_Witness ==
    /\ IsIcw1(op)
    /\ op.u = 1
    /\ pics[1].init_state = 1
    /\ pics[1].elcr # 0
    /\ pics[1].irr = 0
    /\ Bit(pics[0].irr, 2) = 1
    /\ Bit(pics[0].last_irr, 2) = 0

\* C11 (as claimed): a cold reset of a unit zeroes both its elcr and its
\* elcr_mask, together with all other registers.
C11_ColdResetZeroesElcrAndMask ==
    [][ op'.name = "reset"
        => /\ pics'[op'.u].elcr = 0
           /\ pics'[op'.u].elcr_mask = 0
      ]_vars

\* C11 (amended): a cold reset of a unit zeroes its elcr and every other
\* register except elcr_mask, which keeps the value given at construction
\* (0xF8 on the master, 0xDE on the slave).
C11_ColdResetKeepsElcrMask ==
    [][ op'.name = "reset"
        => /\ pics'[op'.u] = [PicZero EXCEPT !.elcr_mask = pics[op'.u].elcr_mask]
           /\ pics'[op'.u].elcr = 0
           /\ pics'[op'.u].elcr_mask = IF op'.u = 0 THEN 248 ELSE 222
      ]_vars

\* the BIOS-programmed master (vector base 0x20 before) was cold-reset: all
\* its registers are zero and its elcr_mask is still 0xF8
C11_Witness ==
    /\ op.name = "reset"
    /\ op.u = 0
    /\ pics[1].irq_base = 40
    /\ pics[0] = [PicZero EXCEPT !.elcr_mask = 248]

\* C12: in every reachable state both units have irq_base & 7 = 0, whatever
\* byte was written as ICW2 (which stores val & 0xF8); consequently the
\* vector returned by ack() has the acknowledged line number in its low
\* three bits (the master's line, the slave's line in a cascaded
\* acknowledge, 7 in a spurious one).
C12_IrqBaseAligned ==
    /\ [](\A u \in Units : And(pics[u].irq_base, 7) = 0)
    /\ [][ LET pm == Pending(0)
               ps == Pending(1)
           IN  /\ (op'.name = "write" /\ op'.a = 1 /\ pics[op'.u].init_state = 1)
                  => pics'[op'.u].irq_base = And(op'.v, 248)
               /\ op'.name = "ack"
                  => op'.ret % 8 = IF pm >= 0 /\ pm # 2 THEN pm
                                   ELSE IF pm = 2 /\ ps >= 0 THEN ps
                                   ELSE 7
         ]_vars

\* 0x2B was written as ICW2 and the vector base is 0x28
C12_Witness ==
    /\ op.name = "write"
    /\ op.a = 1
    /\ op.v = 43
    /\ pics[op.u].init_state = 2
    /\ pics[op.u].irq_base = 40

\* the set bit of x found first when scanning from line pa upwards, modulo 8
FirstFrom(x, pa) ==
    CHOOSE l \in 0..7 :
        /\ Bit(x, l) = 1
        /\ \A k \in 0..7 : Bit(x, k) = 1 => (l + 8 - pa) % 8 <= (k + 8 - pa) % 8

IsOcw2(c) == c.name = "write" /\ c.a = 0 /\ And(c.v, 24) = 0

\* C13: an OCW2 cmd 5 issued with isr # 0 clears the highest-priority set
\* isr bit L, and an OCW2 cmd 7 clears isr bit L = val & 7; both leave
\* priority_add = (L+1) & 7 and change no other isr bit.  A cmd 5 issued
\* with isr = 0 changes neither isr nor priority_add.  priority_add is in
\* 0..7 in every reachable state.
C13_RotateOnEoi ==
    /\ [](\A u \in Units : pics[u].priority_add \in 0..7)
    /\ [][ LET s   == pics[op'.u]
               t   == pics'[op'.u]
               cmd == op'.v \div 32
               L   == IF cmd = 7 THEN op'.v % 8 ELSE FirstFrom(s.isr, s.priority_add)
           IN  /\ (IsOcw2(op') /\ (cmd = 7 \/ (cmd = 5 /\ s.isr # 0)))
                  => /\ t.priority_add = (L + 1) % 8
                     /\ Bit(t.isr, L) = 0
                     /\ t.isr = And(s.isr, Not8(Shl1(L)))
               /\ (IsOcw2(op') /\ cmd = 5 /\ s.isr = 0)
                  => /\ t.isr = s.isr
                     /\ t.priority_add = s.priority_add
         ]_vars

\* line 3 was in service on the master and a non-specific rotate-EOI (0xA0)
\* has cleared it: isr is 0 and priority_add is 4
C13_Witness ==
    /\ op.name = "write"
    /\ op.u = 0
    /\ op.a = 0
    /\ op.v = 160
    /\ pics[0].isr = 0
    /\ pics[0].priority_add = 4
    /\ level[3] = 1

\* C14: after every public operation a unit whose requests are all masked
\* (irr & ~imr = 0) has its output wire low, so a line whose imr bit is set
\* never raises the output while its irr bit stays latched.
C14_MaskedUnitOutputLow ==
    \A u \in Units : And(pics[u].irr, Not8(pics[u].imr)) = 0 => wire[u] = 0

\* C15 (as claimed): a read from offset 1 returns the unit's imr and changes
\* no state, in every reachable state, including when the poll one-shot is
\* armed.
C15_Read1ReturnsImr ==
    [][ (op'.name = "read" /\ op'.a = 1)
        => /\ op'.ret = pics[op'.u].imr
           /\ pics' = pics
           /\ wire' = wire
           /\ halted' = halted
      ]_vars

\* C15 (amended): a read from offset 1 with poll clear returns imr and
\* changes no state; with poll armed it is the polled acknowledge, as a read
\* of offset 0 is: poll is cleared, the pending line r is returned with irr
\* and isr bit r of the unit cleared, or 7 is returned with no register
\* other than poll changed.
C15_Read1ImrUnlessPoll ==
    [][ LET u == op'.u
            s == pics[u]
            t == pics'[u]
            r == Pending(u)
        IN  (op'.name = "read" /\ op'.a = 1)
            => /\ s.poll = 0
                  => /\ op'.ret = s.imr
                     /\ pics' = pics
                     /\ wire' = wire
                     /\ halted' = halted
               /\ (s.poll # 0 /\ r >= 0)
                  => /\ op'.ret = r
                     /\ t.poll = 0
                     /\ t.irr = And(s.irr, Not8(Shl1(r)))
                     /\ t.isr = And(s.isr, Not8(Shl1(r)))
               /\ (s.poll # 0 /\ r < 0)
                  => /\ op'.ret = 7
                     /\ pics' = [pics EXCEPT ![u].poll = 0]
                     /\ wire' = wire
      ]_vars

\* poll was armed on the master with line 3 pending and a read of offset 1
\* returned 3 and consumed the request
C15_Witness ==
    /\ op.name = "read"
    /\ op.u = 0
    /\ op.a = 1
    /\ op.v = 1
    /\ op.ret = 3
    /\ level[3] = 1
    /\ pics[0].poll = 0
    /\ Bit(pics[0].irr, 3) = 0

\* C16: writing ICW1 with bit 3 set puts the core in the halted state, in
\* which no further operation changes a register or an output; the core is
\* halted only by such a write, so no ICW1 with bit 3 set is ever followed
\* by a running core.
C16_LevelModeIcw1Halts ==
    /\ [](halted <=> (IsIcw1(op) /\ And(op.v, 8) # 0))
    /\ [][ /\ (IsIcw1(op') /\ And(op'.v, 8) # 0) => halted'
           /\ halted => (pics' = pics /\ wire' = wire /\ halted')
         ]_vars

\* ICW1 0x19 was written and the core is halted
C16_Witness ==
    /\ halted
    /\ op.name = "write"
    /\ op.a = 0
    /\ op.v = 25
    /\ steps < MaxSteps

\* the registers s with irr and isr bit r cleared
Consumed(s, r) ==
    [s EXCEPT !.irr = And(s.irr, Not8(Shl1(r))),
              !.isr = And(s.isr, Not8(Shl1(r)))]

\* C17: the memory-mapped acknowledge is a polled acknowledge on the master
\* and, only if its result is 2, a polled acknowledge on the slave; it
\* returns the slave's result + 8 in that case and the master's result
\* otherwise (7 when nothing is pending); it always leaves master
\* read_reg_select = 1 and never changes the slave's read_reg_select.
C17_IntackRead ==
    [][ LET pm == Pending(0)
            ps == Pending(1)
            r0 == IF pm >= 0 THEN pm ELSE 7
            r1 == IF ps >= 0 THEN ps ELSE 7
            s  == pics[0]
        IN  op'.name = "intack_read"
            => /\ pics'[0].read_reg_select = 1
               /\ pics'[1].read_reg_select = pics[1].read_reg_select
               /\ pm # 2
                  => /\ op'.ret = r0
                     /\ pics'[1] = pics[1]
                     /\ wire'[1] = wire[1]
                     /\ pics'[0] = [(IF pm >= 0 THEN Consumed(s, pm) ELSE s)
                                       EXCEPT !.read_reg_select = 1]
               /\ pm = 2
                  => /\ op'.ret = r1 + 8
                     /\ pics'[0].isr = And(s.isr, Not8(Shl1(2)))
                     /\ ps >= 0
                        => /\ [pics'[1] EXCEPT !.last_irr = 0]
                                = [Consumed(pics[1], ps) EXCEPT !.last_irr = 0]
                           /\ pics'[1].last_irr = pics[1].last_irr
                           /\ wire'[1] = Level(pic_get_irq(pics'[1], 1) >= 0)
                     /\ ps < 0
                        => /\ pics'[1] = pics[1]
                           /\ wire'[1] = wire[1]
                           /\ pics'[0] = [Consumed(s, 2) EXCEPT !.read_reg_select = 1]
      ]_vars

\* slave line 3 (handle 11) was pending and the memory-mapped acknowledge
\* returned 11, consumed it and selected the master's ISR for reading
C17_Witness ==
    /\ op.name = "intack_read"
    /\ op.a = 2
    /\ op.v = 3
    /\ op.ret = 11
    /\ level[11] = 1
    /\ Bit(pics[1].irr, 3) = 0
    /\ pics[0].read_reg_select = 1
    /\ pics[1].read_reg_select = 0

IsData(c) == c.name = "write" /\ c.a = 1

\* the registers the initialisation scenario of C18 speaks of
InitRegs(s, st, base) ==
    /\ s.init_state = st
    /\ s.irq_base = base
    /\ s.init4 = 1
    /\ s.single_mode = 0
    /\ s.auto_eoi = 0

\* C18: ICW1 leaves the unit in AWAIT_ICW2 (1) with init4 and single_mode
\* latched; the offset-1 writes that follow are consumed as ICW2
\* (irq_base = val & 0xF8), then ICW3 unless single_mode, then ICW4
\* (special_fully_nested_mode = bit 4, auto_eoi = bit 1) only if init4, and
\* then init_state is IDLE (0); an offset-1 write stores imr only in IDLE,
\* each such write changes nothing but the registers named, and init_state
\* is always one of the four states.  The last four conjuncts chain the
\* scenario write(0,0x11), write(1,0x20), write(1,0x04), write(1,0x01),
\* which ends with irq_base = 0x20, init4 = 1, auto_eoi = 0 and IDLE.
C18_InitSequencing ==
    /\ [](\A u \in Units : pics[u].init_state \in 0..3)
    /\ [][ LET u   == op'.u
               v   == op'.v
               s   == pics[u]
               t   == pics'[u]
               nx4 == IF s.init4 # 0 THEN 3 ELSE 0
           IN  /\ (IsIcw1(op') /\ And(v, 8) = 0)
                  => /\ t.init_state = 1
                     /\ t.init4 = And(v, 1)
                     /\ t.single_mode = And(v, 2)
               /\ (IsData(op') /\ s.init_state = 1)
                  => t = [s EXCEPT !.irq_base = And(v, 248),
                                   !.init_state = IF s.single_mode # 0
                                                  THEN nx4 ELSE 2]
               /\ (IsData(op') /\ s.init_state = 2)
                  => t = [s EXCEPT !.init_state = nx4]
               /\ (IsData(op') /\ s.init_state = 3)
                  => t = [s EXCEPT !.special_fully_nested_mode = Bit(v, 4),
                                   !.auto_eoi = Bit(v, 1),
                                   !.init_state = 0]
               /\ (IsData(op') /\ s.init_state = 0)
                  => t = [s EXCEPT !.imr = v]
               /\ (IsData(op') /\ s.init_state # 0) => t.imr = s.imr
               /\ (IsIcw1(op') /\ v = 17) => InitRegs(t, 1, 0)
               /\ (IsData(op') /\ v = 32 /\ InitRegs(s, 1, 0)) => InitRegs(t, 2, 32)
               /\ (IsData(op') /\ v = 4 /\ InitRegs(s, 2, 32)) => InitRegs(t, 3, 32)
               /\ (IsData(op') /\ v = 1 /\ InitRegs(s, 3, 32)) => InitRegs(t, 0, 32)
         ]_vars

\* four writes to the slave (whose vector base is never 0x20 before the
\* run): ICW1 0x11, ICW2 0x20, ICW3, ICW4 0x01 have left it IDLE with
\* irq_base 0x20, init4 latched and auto_eoi clear
C18_Witness ==
    /\ steps = 4
    /\ op.name = "write"
    /\ op.u = 1
    /\ op.a = 1
    /\ op.v = 1
    /\ InitRegs(pics[1], 0, 32)
    /\ pics[1].imr = 0

\* C19: with poll armed by OCW3, the next read of offset 0 clears poll; if
\* the unit's pending selection is a line r it returns r, clears irr and isr
\* bit r of the unit (and master irr and isr bit 2 when the unit is the
\* slave) and leaves the unit's output equal to its new pending state; if
\* nothing is pending it returns 7 and changes no register other than poll.
\* A read of offset 0 with poll clear returns isr or irr per read_reg_select
\* and changes no state.
C19_PolledAcknowledge ==
    [][ LET u == op'.u
            s == pics[u]
            t == pics'[u]
            r == Pending(u)
        IN  (op'.name = "read" /\ op'.a = 0)
            => /\ t.poll = 0
               /\ (s.poll # 0 /\ r >= 0)
                  => /\ op'.ret = r
                     /\ t.irr = And(s.irr, Not8(Shl1(r)))
                     /\ t.isr = And(s.isr, Not8(Shl1(r)))
                     /\ u = 1 => /\ Bit(pics'[0].irr, 2) = 0
                                 /\ Bit(pics'[0].isr, 2) = 0
                     /\ wire'[u] = Level(pic_get_irq(t, u) >= 0)
               /\ (s.poll # 0 /\ r < 0)
                  => /\ op'.ret = 7
                     /\ pics' = [pics EXCEPT ![u].poll = 0]
                     /\ wire' = wire
               /\ s.poll = 0
                  => /\ op'.ret = IF s.read_reg_select # 0 THEN s.isr ELSE s.irr
                     /\ pics' = pics
                     /\ wire' = wire
      ]_vars

\* C20 (as claimed): after every public operation master irr bit 2 is 1
\* exactly when the slave's output wire is high, and it changes only in a
\* step in which the slave's output changes.
C20_MasterIrr2IsSlaveOutput ==
    /\ [](Bit(pics[0].irr, 2) = wire[1])
    /\ [][ Bit(pics'[0].irr, 2) # Bit(pics[0].irr, 2) => wire'[1] # wire[1] ]_vars

\* the calls that acknowledge master line 2, take a polled acknowledge on
\* the slave, or reset the master
ClearsMasterIrr2(c) ==
    \/ c.name \in {"ack", "intack_read"} /\ Pending(0) = 2
    \/ c.name = "read" /\ c.u = 0 /\ pics[0].poll # 0 /\ Pending(0) = 2
    \/ c.name = "read" /\ c.u = 1 /\ pics[1].poll # 0 /\ Pending(1) >= 0
    \/ IsIcw1(c) /\ c.u = 0
    \/ c.name = "reset" /\ c.u = 0

\* C20 (amended): master irr bit 2 is an edge latch of the slave's output.
\* It becomes 1 only in a step that drives the slave's output high while
\* master last_irr bit 2 is 0; it becomes 0 only by an acknowledge of master
\* line 2, a polled acknowledge on the slave or a reset of the master.  In a
\* step that is none of these, a rise of the slave's output leaves it 1 and
\* a fall of the slave's output leaves it as it was.
C20_MasterIrr2LatchesSlaveOutput ==
    [][ LET b  == Bit(pics[0].irr, 2)
            b1 == Bit(pics'[0].irr, 2)
        IN  /\ (b = 0 /\ b1 = 1)
               => (wire'[1] = 1 /\ Bit(pics[0].last_irr, 2) = 0)
            /\ (wire[1] = 0 /\ wire'[1] = 1 /\ ~ClearsMasterIrr2(op')) => b1 = 1
            /\ (b = 1 /\ b1 = 0) => ClearsMasterIrr2(op')
            /\ (wire[1] = 1 /\ wire'[1] = 0 /\ ~ClearsMasterIrr2(op')) => b1 = b
      ]_vars

\* slave line 0 was raised and then the slave was fully masked: the slave's
\* output is low again and master irr bit 2 is still latched
C20_Witness ==
    /\ op.name = "write"
    /\ op.u = 1
    /\ op.a = 1
    /\ op.v = 255
    /\ pics[1].imr = 255
    /\ Bit(pics[1].irr, 0) = 1
    /\ wire[1] = 0
    /\ Bit(pics[0].irr, 2) = 1

\* the lines whose bit is set in x
Lines(x) == {i \in 0..7 : Bit(x, i) = 1}

\* priority(x): the least p in 0..7 with line (p + pa) & 7 in S, 8 if none
RefPriority(S, pa) ==
    IF S = {} THEN 8
    ELSE CHOOSE p \in 0..7 :
           /\ (p + pa) % 8 \in S
           /\ \A q \in 0..7 : (q + pa) % 8 \in S => p <= q

\* the reference selection of C21 for registers s of unit u
RefPending(s, u) ==
    LET req == Lines(s.irr) \ Lines(s.imr)
        m   == (Lines(s.isr)
                  \ (IF s.special_mask # 0 THEN Lines(s.imr) ELSE {}))
                  \ (IF u = 0 /\ s.special_fully_nested_mode # 0 THEN {2} ELSE {})
        pr  == RefPriority(req, s.priority_add)
    IN  IF pr < RefPriority(m, s.priority_add)
        THEN (pr + s.priority_add) % 8
        ELSE -1

\* C21: for every register valuation the pending selection of a unit is the
\* reference: with req = irr & ~imr and m = isr (less the imr bits under
\* special_mask, less bit 2 on the master under special_fully_nested_mode)
\* it is line (priority(req) + priority_add) & 7 when
\* priority(req) < priority(m) and none otherwise; the priority search ends
\* with a value in 0..7 for a non-empty mask and 8 for an empty one; and
\* special_fully_nested_mode does not change the slave's selection.
C21_PendingIsReference ==
    [][ LET u == op'.u
            s == pics[u]
        IN  op'.name = "get_irq"
            => /\ op'.ret = RefPending(s, u)
               /\ op'.ret \in (-1)..7
               /\ op'.a = RefPriority(Lines(s.irr) \ Lines(s.imr), s.priority_add)
               /\ op'.a \in 0..8
               /\ op'.a = 8 <=> And(s.irr, Not8(s.imr)) = 0
               /\ u = 1
                  => op'.ret = RefPending(
                        [s EXCEPT !.special_fully_nested_mode =
                                     1 - s.special_fully_nested_mode], 1)
      ]_vars

\* the master in special fully nested mode with the cascade line in service
\* and priorities rotated by 5 selects line 2 again, behind which two lines
\* of lower priority are requested too
C21_Witness ==
    /\ op.name = "get_irq"
    /\ op.u = 0
    /\ op.ret = 2
    /\ op.a = 5
    /\ pics[0].special_fully_nested_mode = 1
    /\ pics[0].priority_add = 5
    /\ pics[0].isr = 4
    /\ pics[0].irr = 12
    /\ pics[0].imr = 0

\* the slave requests an interrupt that the master has neither latched nor
\* in service
StrandedIn(m) ==
    /\ m.wire[1] = 1
    /\ pic_get_irq(m.pics[1], 1) >= 0
    /\ Bit(m.pics[0].irr, 2) = 0
    /\ Bit(m.pics[0].isr, 2) = 0

\* the machines an ack() or an EOI on either unit leads to
AckEoiSucc(m) ==
    { pic_read_irq(m).m,
      pic_ioport_write(m, 0, 0, 32),
      pic_ioport_write(m, 1, 0, 32) }

\* the machines reachable from those of front by acks and EOIs
RECURSIVE AckEoiClosure(_, _)
AckEoiClosure(seen, front) ==
    IF front \subseteq seen
    THEN seen
    ELSE AckEoiClosure(seen \cup front,
                       UNION {AckEoiSucc(m) : m \in front} \ (seen \cup front))

\* C22: no slave request is stranded.  With both units initialised in any
\* ICW4 mode, a processor that acknowledges whenever the master's output is
\* high and ends every interrupt in service, there is no reachable state in
\* which the slave's output is high with a slave line requested and
\* unmasked, master irr bit 2 and master isr bit 2 are both 0, and no
\* sequence of acks and EOIs changes that.
C22_NoStrandedSlaveRequest ==
    ~ /\ StrandedIn(Machine)
      /\ \A m \in AckEoiClosure({}, {Machine}) : StrandedIn(m)

====
